---------------------------- MODULE Spec2Model ----------------------------
(***************************************************************************)
(* flexi_auth.backends.ParamRoleBackend: the (parametric) role-based       *)
(* authorization backend.  has_perm(user_obj, perm, obj) decides whether a *)
(* user holds a permission on a model class (table-level) or on a model    *)
(* instance (row-level) by calling the method can_<perm> that Python's     *)
(* getattr finds on obj.model_or_instance.                                 *)
(*                                                                         *)
(* Python values are modelled as follows.                                  *)
(*   - strings that the code manipulates (permission codenames, attribute  *)
(*     names) are sequences of one-character strings, so that lower() and  *)
(*     '+' are computed character by character;                            *)
(*   - True / False / None as returned values are "True", "False", "None"; *)
(*   - the outcome of a call is a value returned or an exception raised.   *)
(***************************************************************************)
EXTENDS Naturals, Sequences, FiniteSets, TLC

VARIABLES
    user_obj,   \* the User object passed to has_perm (lives outside the backend)
    context,    \* the context dictionary the ObjectWithContext wrappers refer to
    call,       \* the arguments of the last call made on the backend
    outcome,    \* what that call returned or raised
    lookups,    \* the getattr lookups that call performed, in order
    invoked,    \* the permission-check methods that call invoked, in order
    first,      \* the first has_perm call of the run and its outcome
    later       \* whether the last has_perm call came after that first one

vars == <<user_obj, context, call, outcome, lookups, invoked, first, later>>

----------------------------------------------------------------------------
(* Bounds                                                                  *)

\* user ids are 1..NumUserIds
NumUserIds == 2

UserIds == 1..NumUserIds

----------------------------------------------------------------------------
(* Python values                                                           *)

Return(v) == [kind |-> "return", value |-> v]
Raise(e)  == [kind |-> "raise", exc |-> e]

\* the argument obj=None
None == [tag |-> "None"]

\* the empty dictionary {}
EmptyDict == [k \in {} |-> 0]

\* str.lower(), on the ASCII letters
UpperToLower ==
    [A |-> "a", B |-> "b", C |-> "c", D |-> "d", E |-> "e", F |-> "f",
     G |-> "g", H |-> "h", I |-> "i", J |-> "j", K |-> "k", L |-> "l",
     M |-> "m", N |-> "n", O |-> "o", P |-> "p", Q |-> "q", R |-> "r",
     S |-> "s", T |-> "t", U |-> "u", V |-> "v", W |-> "w", X |-> "x",
     Y |-> "y", Z |-> "z"]

lower(s) ==
    [i \in 1..Len(s) |-> IF s[i] \in DOMAIN UpperToLower THEN UpperToLower[s[i]] ELSE s[i]]

----------------------------------------------------------------------------
(* The permission codenames callers ask for (inputs)                       *)

view    == <<"v", "i", "e", "w">>
create  == <<"c", "r", "e", "a", "t", "e">>
edit    == <<"e", "d", "i", "t">>
archive == <<"a", "r", "c", "h", "i", "v", "e">>

Perms ==
    { view, <<"V", "i", "e", "w">>, <<"V", "I", "E", "W">>,
      create, <<"C", "R", "E", "A", "T", "E">>,
      edit, <<"E", "d", "i", "t">>,
      archive }


----------------------------------------------------------------------------
(* The Django application's models (the backend's collaborators).  Each    *)
(* model class defines can_<perm> methods: a class-method for a table-level*)
(* permission, an instance-method for a row-level one.  A method body is   *)
(* named by what it answers for (user, context).                           *)

attr(s) == <<"c", "a", "n", "_">> \o s

\* the value a permission-check method returns for (user, context)
Body(body, user, ctx) ==
    CASE body = "grant" -> "True"
      [] body = "deny"  -> "False"
      [] body = "owner" -> IF "owner" \in DOMAIN ctx /\ ctx["owner"] = user.id
                           THEN "True" ELSE "False"
      [] body = "none"  -> "None"

Models == {"Foo", "Bar"}

\* the class namespace: attribute name -> how it is defined, and its body
ClassDict(cls) ==
    IF cls = "Foo"
    THEN (attr(create) :> [kind |-> "classmethod", body |-> "grant"]) @@
         (attr(view)   :> [kind |-> "function",    body |-> "grant"]) @@
         (attr(edit)   :> [kind |-> "function",    body |-> "owner"])
    ELSE (attr(create) :> [kind |-> "classmethod", body |-> "deny"]) @@
         (attr(view)   :> [kind |-> "function",    body |-> "none"])

\* the instances, the class of each, and each one's own namespace (__dict__)
Instances == {"foo1", "foo2", "bar1"}

ClassOf(inst) == IF inst = "bar1" THEN "Bar" ELSE "Foo"

InstanceDict(inst) ==
    CASE inst = "foo1" -> (attr(create) :> [kind |-> "attribute", body |-> "deny"])
      [] inst = "bar1" -> (attr(create) :> [kind |-> "attribute", body |-> "grant"])
      [] OTHER         -> EmptyDict

\* what obj.model_or_instance can be: a model class, a model instance, or
\* something that is neither (None)
Class(cls)     == [shape |-> "class", cls |-> cls]
Instance(inst) == [shape |-> "instance", cls |-> ClassOf(inst), inst |-> inst]
Neither        == [shape |-> "None"]

ModelOrInstance ==
    {Class(c) : c \in Models} \cup {Instance(i) : i \in Instances} \cup {Neither}

\* flexi_auth's wrapper: an object with .model_or_instance and .context
ObjectWithContext(moi, ctx) ==
    [tag |-> "ObjectWithContext", model_or_instance |-> moi, context |-> ctx]

Contexts == {EmptyDict} \cup {[owner |-> u] : u \in UserIds}

\* django.contrib.auth's AnonymousUser: no id, never superuser, never active
AnonymousUser ==
    [id |-> 0, is_superuser |-> FALSE, is_authenticated |-> FALSE,
     is_active |-> FALSE]

\* the User objects a caller can pass: AnonymousUser, or a User row
Users ==
    {AnonymousUser} \cup
    [id : UserIds, is_superuser : BOOLEAN, is_authenticated : {TRUE},
     is_active : BOOLEAN]

\* User.is_anonymous()
is_anonymous(user) == ~user.is_authenticated

----------------------------------------------------------------------------
(* Python's attribute lookup and call                                      *)

Unbound == [shape |-> "unbound"]

\* a callable: the function, where it is defined, and what it is bound to
Callable(owner, name, a, self) ==
    [defined_on |-> owner, name |-> name, kind |-> a.kind, body |-> a.body,
     im_self |-> self]

\* getattr as it would be with the lookup made on the instance's class
\* (getattr(type(o), name)) instead of on the instance
getattr_on_class(o, name) ==
    IF o.shape = "None"
    THEN Raise("AttributeError")
    ELSE IF name \in DOMAIN ClassDict(o.cls)
    THEN LET a == ClassDict(o.cls)[name]
         IN  IF a.kind = "classmethod"
             THEN Return(Callable(o.cls, name, a, Class(o.cls)))
             ELSE Return(Callable(o.cls, name, a, Unbound))
    ELSE Raise("AttributeError")

\* getattr(o, name): the instance's own namespace first, then the class's;
\* a class-method binds to the class, a function binds to the instance it is
\* reached through and stays unbound when reached through the class
getattr(o, name) ==
    IF o.shape = "None"
    THEN Raise("AttributeError")
    ELSE IF o.shape = "instance" /\ name \in DOMAIN InstanceDict(o.inst)
    THEN Return(Callable(o.inst, name, InstanceDict(o.inst)[name], o))
    ELSE IF name \in DOMAIN ClassDict(o.cls)
    THEN LET a == ClassDict(o.cls)[name]
         IN  IF a.kind = "classmethod"
             THEN Return(Callable(o.cls, name, a, Class(o.cls)))
             ELSE IF o.shape = "instance"
             THEN Return(Callable(o.cls, name, a, o))
             ELSE Return(Callable(o.cls, name, a, Unbound))
    ELSE Raise("AttributeError")

\* the call as it would be with an empty context passed: perm_check(user_obj, {})
Apply_without_context(perm_check, user, ctx) ==
    IF perm_check.im_self = Unbound
    THEN Raise("TypeError")
    ELSE Return(Body(perm_check.body, user, EmptyDict))

\* perm_check(user_obj, context): an unbound method called without its
\* instance is a TypeError (its body never runs); otherwise the body's value
\* is returned as it is
Apply(perm_check, user, ctx) ==
    IF perm_check.im_self = Unbound
    THEN Raise("TypeError")
    ELSE Return(Body(perm_check.body, user, ctx))

\* one entry of the record of invocations
Invocation(perm_check, user, ctx) ==
    [check |-> perm_check, user |-> user, context |-> ctx]

----------------------------------------------------------------------------
(* ParamRoleBackend                                                        *)

Result(o, l, i) == [outcome |-> o, lookups |-> l, invoked |-> i]

\* the name as it would be without lower(): 'can_' + perm
perm_check_name_as_given(perm) == attr(perm)

\* 'can_' + perm.lower()
perm_check_name(perm) == attr(lower(perm))

\* the retrieval as it would be with a failed lookup turned into a denial
\* (getattr(..., None), and False when nothing is found)
perm_check_call_denies_when_missing(user, perm, obj) ==
    LET name       == attr(lower(perm))
        looked     == <<[on |-> obj.model_or_instance, name |-> name]>>
        perm_check == getattr(obj.model_or_instance, name)
    IN  IF perm_check.kind = "raise"
        THEN Result(Return("False"), looked, <<>>)
        ELSE LET returned == Apply(perm_check.value, user, obj.context)
             IN  Result(returned, looked,
                        IF returned = Raise("TypeError")
                        THEN <<>>
                        ELSE <<Invocation(perm_check.value, user, obj.context)>>)

\* retrieve the function implementing the permission check for the given
\* model or instance, and call it with (user_obj, obj.context)
perm_check_call(user, perm, obj) ==
    LET name       == perm_check_name(perm)
        looked     == <<[on |-> obj.model_or_instance, name |-> name]>>
        perm_check == getattr(obj.model_or_instance, name)
    IN  IF perm_check.kind = "raise"
        THEN Result(perm_check, looked, <<>>)
        ELSE LET returned == Apply(perm_check.value, user, obj.context)
             IN  Result(returned, looked,
                        IF returned = Raise("TypeError")
                        THEN <<>>
                        ELSE <<Invocation(perm_check.value, user, obj.context)>>)

\* has_perm as it would be with the anonymous/inactive test made before the
\* superuser test
has_perm_inactive_first(user, perm, obj) ==
    IF obj = None
    THEN Result(Return("False"), <<>>, <<>>)
    ELSE IF is_anonymous(user) \/ ~user.is_active
    THEN Result(Return("False"), <<>>, <<>>)
    ELSE IF user.is_superuser
    THEN Result(Return("True"), <<>>, <<>>)
    ELSE perm_check_call(user, perm, obj)

\* has_perm as it would be with the superuser test made before the test of
\* obj against None
has_perm_superuser_first(user, perm, obj) ==
    IF user.is_superuser
    THEN Result(Return("True"), <<>>, <<>>)
    ELSE IF obj = None
    THEN Result(Return("False"), <<>>, <<>>)
    ELSE IF is_anonymous(user) \/ ~user.is_active
    THEN Result(Return("False"), <<>>, <<>>)
    ELSE perm_check_call(user, perm, obj)

\* has_perm as it would be without the test of is_active
has_perm_ignores_inactive(user, perm, obj) ==
    IF obj = None
    THEN Result(Return("False"), <<>>, <<>>)
    ELSE IF user.is_superuser
    THEN Result(Return("True"), <<>>, <<>>)
    ELSE IF is_anonymous(user)
    THEN Result(Return("False"), <<>>, <<>>)
    ELSE perm_check_call(user, perm, obj)

\* has_perm as it would be with the last answer kept in the backend and
\* given again for the same codename, whatever the object
has_perm_cached(user, perm, obj) ==
    IF call.op = "has_perm" /\ call.perm = perm
    THEN Result(outcome, lookups, invoked)
    ELSE IF obj = None
    THEN Result(Return("False"), <<>>, <<>>)
    ELSE IF user.is_superuser
    THEN Result(Return("True"), <<>>, <<>>)
    ELSE IF is_anonymous(user) \/ ~user.is_active
    THEN Result(Return("False"), <<>>, <<>>)
    ELSE perm_check_call(user, perm, obj)

has_perm(user, perm, obj) ==
    IF obj = None
    THEN Result(Return("False"), <<>>, <<>>)
    ELSE IF user.is_superuser
    THEN Result(Return("True"), <<>>, <<>>)
    ELSE IF is_anonymous(user) \/ ~user.is_active
    THEN Result(Return("False"), <<>>, <<>>)
    ELSE perm_check_call(user, perm, obj)

\* authenticate(username, password): authorization-only backend
authenticate(username, password) == Return("None")

----------------------------------------------------------------------------
(* The state machine: callers call the backend, one call after another     *)

NoCall == [op |-> "none"]

Usernames == {"alice", "bob"}
Passwords == {"secret", "wrong"}

Objs == {None} \cup {ObjectWithContext(m, context) : m \in ModelOrInstance}

Init ==
    /\ user_obj \in Users
    /\ context \in Contexts
    /\ call = NoCall
    /\ outcome = Return("None")
    /\ lookups = <<>>
    /\ invoked = <<>>
    /\ first = NoCall
    /\ later = FALSE

Authenticate ==
    \E username \in Usernames, password \in Passwords :
        /\ call' = [op |-> "authenticate", username |-> username,
                    password |-> password]
        /\ outcome' = authenticate(username, password)
        /\ lookups' = <<>>
        /\ invoked' = <<>>
        /\ UNCHANGED <<user_obj, context, first, later>>

\* what a has_perm call leaves behind, whoever keeps the history
HasPermCall(perm, obj) ==
    LET r == has_perm(user_obj, perm, obj)
    IN  /\ call' = [op |-> "has_perm", user_obj |-> user_obj, perm |-> perm,
                    obj |-> obj]
        /\ outcome' = r.outcome
        /\ lookups' = r.lookups
        /\ invoked' = r.invoked
        /\ UNCHANGED <<user_obj, context>>

HasPerm ==
    \E perm \in Perms, obj \in Objs :
        /\ HasPermCall(perm, obj)
        /\ UNCHANGED <<first, later>>

Next == Authenticate \/ HasPerm

Spec == Init /\ [][Next]_vars

\* the same calls, with the first has_perm call of the run remembered
HasPermRemembered ==
    \E perm \in Perms, obj \in Objs :
        /\ HasPermCall(perm, obj)
        /\ first' = IF first = NoCall
                    THEN [op |-> "has_perm", perm |-> perm, obj |-> obj,
                          outcome |-> outcome']
                    ELSE first
        /\ later' = (first # NoCall)

NextHistory == Authenticate \/ HasPermRemembered

SpecHistory == Init /\ [][NextHistory]_vars

----------------------------------------------------------------------------
(* Properties                                                              *)

IsHasPerm == call.op = "has_perm"

HasTarget == IsHasPerm /\ call.obj # None

\* neither superuser, nor anonymous, nor inactive: the call reaches the lookup
Plain(user) == ~user.is_superuser /\ user.is_authenticated /\ user.is_active

Reached == HasTarget /\ Plain(call.user_obj)

Target == call.obj.model_or_instance

Name == attr(lower(call.perm))

\* the model class defines the name as a class-method
ClassScoped(cls, name) ==
    name \in DOMAIN ClassDict(cls) /\ ClassDict(cls)[name].kind = "classmethod"

\* the instance has the name as its own attribute, or its class defines it
\* as an instance-method
InstanceScoped(inst, name) ==
    \/ name \in DOMAIN InstanceDict(inst)
    \/ /\ name \in DOMAIN ClassDict(ClassOf(inst))
       /\ ClassDict(ClassOf(inst))[name].kind = "function"

\* the check exists on the target at the scope the target asks for
ExistsAtScope(o, name) ==
    \/ o.shape = "class" /\ ClassScoped(o.cls, name)
    \/ o.shape = "instance" /\ InstanceScoped(o.inst, name)

\* C1: a superuser is granted every permission on every object given
\* (model class, model instance, or an object that is neither), whatever the
\* codename and the context, and no attribute is looked up nor any check
\* invoked on the way, so a missing can_<perm> does not matter.
C1_SuperuserGranted ==
    (HasTarget /\ call.user_obj.is_superuser)
        => outcome = Return("True") /\ lookups = <<>> /\ invoked = <<>>

\* C1 witness: an inactive superuser asks for "archive", which no model
\* defines, and is granted it.
C1_Witness ==
    /\ HasTarget /\ call.user_obj.is_superuser /\ ~call.user_obj.is_active
    /\ Target = Instance("foo2") /\ call.perm = archive
    /\ getattr(Target, Name) = Raise("AttributeError")
    /\ outcome = Return("True")

\* C2: with obj=None the answer is False for every user and codename, and
\* nothing is looked up or invoked.
C2_NoObjectDenied ==
    (IsHasPerm /\ call.obj = None)
        => outcome = Return("False") /\ lookups = <<>> /\ invoked = <<>>

\* C2 witness: an active superuser calls has_perm without an object and is
\* denied.
C2_Witness ==
    /\ IsHasPerm /\ call.obj = None
    /\ call.user_obj.is_superuser /\ call.user_obj.is_active
    /\ call.user_obj.is_authenticated
    /\ outcome = Return("False")

\* C3 as stated: an anonymous user, and an authenticated but inactive user,
\* is denied every permission on every object.
C3_AsStated ==
    (IsHasPerm /\ (~call.user_obj.is_authenticated
                   \/ (call.user_obj.is_authenticated /\ ~call.user_obj.is_active)))
        => outcome = Return("False")

\* C3: a user who is not a superuser and is anonymous, or authenticated but
\* inactive, is denied every permission on every object (and with no object),
\* and no check is looked up or invoked.
C3_NonSuperuserDenied ==
    (IsHasPerm /\ ~call.user_obj.is_superuser
               /\ (~call.user_obj.is_authenticated
                   \/ (call.user_obj.is_authenticated /\ ~call.user_obj.is_active)))
        => outcome = Return("False") /\ lookups = <<>> /\ invoked = <<>>

\* C3 witness: an authenticated, inactive, ordinary user is denied "create"
\* on the model class Foo, whose can_create grants it to everybody.
C3_Witness ==
    /\ HasTarget /\ ~call.user_obj.is_superuser
    /\ call.user_obj.is_authenticated /\ ~call.user_obj.is_active
    /\ Target = Class("Foo") /\ call.perm = create
    /\ outcome = Return("False")

\* C4 as stated: when can_<perm.lower()> does not exist on the object at the
\* scope the object asks for (class-method for a model class, the instance's
\* own check for a model instance), the call reaches no verdict: it raises.
C4_AsStated ==
    (Reached /\ Target # Neither /\ ~ExistsAtScope(Target, Name))
        => outcome.kind = "raise"

\* C5: for an ordinary active user and an object that has the check, the
\* check found is invoked exactly once with (user_obj, obj.context), both as
\* the caller holds them, and what it returns is returned as it is; for
\* can_edit, which grants when context["owner"] is the user's id, the answer
\* is True exactly when the context says so.
C5_CheckDecides ==
    (Reached /\ ExistsAtScope(Target, Name)) =>
        LET found == getattr(Target, Name).value
        IN  /\ invoked = <<Invocation(found, user_obj, context)>>
            /\ outcome = Return(Body(found.body, user_obj, context))
            /\ (Target.shape = "instance" /\ Name = attr(edit)) =>
                   (outcome = Return("True")
                        <=> ("owner" \in DOMAIN context
                             /\ context["owner"] = user_obj.id))
            /\ (Target.shape = "instance" /\ Name = attr(edit)) =>
                   outcome \in {Return("True"), Return("False")}

\* C5 witness: user 2 is granted "edit" on foo2 in the context {owner: 2}.
C5_Witness ==
    /\ Reached /\ Target = Instance("foo2") /\ call.perm = edit
    /\ user_obj.id = 2 /\ context = [owner |-> 2]
    /\ Len(invoked) = 1 /\ invoked[1].context = [owner |-> 2]
    /\ outcome = Return("True")

\* C6: codenames that differ only in letter case give the same lookup (of
\* can_<lower-cased codename>), the same invocation and the same outcome, for
\* the same user and object.
C6_CaseInsensitive ==
    IsHasPerm =>
        /\ \A p \in Perms :
              lower(p) = lower(call.perm) =>
                  has_perm(call.user_obj, p, call.obj)
                      = Result(outcome, lookups, invoked)
        /\ \A i \in 1..Len(lookups) : lookups[i].name = attr(lower(call.perm))

\* C6 witness: "VIEW" on foo1 looks up can_view and is granted, as "view" is.
C6_Witness ==
    /\ Reached /\ Target = Instance("foo1")
    /\ call.perm = <<"V", "I", "E", "W">>
    /\ lookups = <<[on |-> Instance("foo1"), name |-> attr(view)]>>
    /\ outcome = Return("True")
    /\ has_perm(call.user_obj, view, call.obj).outcome = Return("True")

\* the model class and the instance both have a can_create of their own
HasBoth(inst) ==
    /\ ClassScoped(ClassOf(inst), attr(create))
    /\ attr(create) \in DOMAIN InstanceDict(inst)

C9_AsStated ==
    Reached =>
        /\ (Target.shape = "class" /\ ~ClassScoped(Target.cls, Name)) =>
              outcome.kind = "raise" /\ invoked = <<>>
        /\ Target.shape = "instance" =>
              \A i \in 1..Len(invoked) : invoked[i].check.im_self = Target

============================================================================
